---- MODULE Spec2Model ----
(***************************************************************************)
(* A model of heramerom/httpr: the retrying single-request executor        *)
(* (service.go: Request.Response, do, _do, the two hook pipelines,         *)
(* Response.Bytes) and the Group orchestrator (group.go: Sync, Async,      *)
(* Continue, Stop).                                                        *)
(*                                                                         *)
(* The specifications share the module's variables:                        *)
(*   Spec       one Request, its builder calls and its execution;          *)
(*   SpecBytes  one Response and the calls of Bytes on it;                 *)
(*   SpecSync   a Group consumed through Sync/Continue/Stop by one         *)
(*              goroutine, SpecSyncFair the same under a fair scheduler,   *)
(*              SpecSyncDriven with a consumer that goes on as well;       *)
(*   SpecAsync  a Group consumed through Async by one goroutine,           *)
(*              SpecAsyncFair the same under a fair scheduler;             *)
(*   SpecSyncRace, SpecAsyncRace  two goroutines calling Sync (Async).     *)
(* A specification leaves the variables of the other parts unchanged.      *)
(***************************************************************************)
EXTENDS Integers, Sequences, FiniteSets

VARIABLES
    service,    \* the Service: its beforeRequest and afterHooks lists
    request,    \* the Request: method, uri, retries, service, req, hook lists
    result,     \* <<>> before the first execution, else <<the last result>>
    response,   \* a Response: its cached body and err
    stream,     \* the wire response's Body: what is left to read, its state
    returns,    \* what the calls of Response.Bytes and Dump returned, in order
    group,      \* the Group: requests, sync, async, next, stop (0: nil)
    chs,        \* the channels made, by identity: capacity, buffer, closed
    callers,    \* the consuming goroutines: where each stands, its channel
    gor,        \* the goroutines the Group started: where each stands
    recv,       \* the envelopes received since a channel was last made, in order
    execd,      \* how often each request was executed since a channel was last made
    crashed,    \* a goroutine panicked: the process is gone
    build,      \* how the build scopes the variable of a range loop
    ghost       \* history of the consumer's calls, read by the properties only

execVars == <<service, request, result>>
bytesVars == <<response, stream, returns>>
groupVars == <<group, chs, callers, gor, recv, execd, crashed, build, ghost>>

(***************************************************************************)
(* Bounds of the model.                                                    *)
(***************************************************************************)
\* longest retry-delay sequence RetryDelay is given
MaxRetries == 3
\* most request-scope hooks of one kind registered on a Request
MaxHooks == 2

\* longest response body
MaxBody == 2
\* most calls of Response.Bytes and Response.Dump on one Response
MaxBytesCalls == 3

\* most requests of a Group
MaxReqs == 3
\* most requests of a Group consumed through Sync under a fair scheduler
MaxFairReqs == 2
\* most requests of a Group consumed through Async
MaxWorkers == 2
\* most calls of Sync (of Async) on one Group
MaxCalls == 2
\* most requests of a Group on which two goroutines call Sync (or Async)
MaxRaceReqs == 1

\* the durations a retry delay is drawn from
Delay == {1, 2}
\* the methods a Request is built with: none, a valid token, and one that is
\* no token (http.NewRequest rejects it)
Methods == {"", "POST", "BAD METHOD"}
\* the URIs a Request is built with: one that parses, one that url.Parse
\* rejects (first path segment holds a colon)
URIs == {"http://h/a", ":bad"}

\* all sequences over S of length at most n
RECURSIVE SeqsUpTo(_, _)
SeqsUpTo(S, n) ==
    IF n = 0 THEN {<<>>}
    ELSE LET shorter == SeqsUpTo(S, n - 1)
         IN shorter \cup {Append(s, x) : s \in {t \in shorter : Len(t) = n - 1}, x \in S}

(***************************************************************************)
(* service.go: the Request and its builders.                               *)
(***************************************************************************)
\* a pre-send hook (BeforeRequestHook) is named by the header it sets on the
\* wire request; a post-response hook (AfterFunc) by the stop value it returns
RequestBefore == <<"r1", "r2", "r3">>

\* NewService: a Service without hooks
Services0 == [beforeRequest |-> <<>>, afterHooks |-> <<>>]
\* the Services of the model: the hook lists a Service holds
Services ==
    {Services0,
     [beforeRequest |-> <<"s1">>, afterHooks |-> <<TRUE>>],
     [beforeRequest |-> <<"s1", "s2">>, afterHooks |-> <<FALSE, FALSE>>],
     [beforeRequest |-> <<"s1", "s2">>, afterHooks |-> <<FALSE, TRUE>>]}

\* Service.Request: a Request attached to the Service
ServiceRequest(method, uri) ==
    [method |-> method, uri |-> uri, retries |-> <<>>, service |-> TRUE,
     req |-> <<>>, beforeRequest |-> <<>>, afterHooks |-> <<>>]

\* NewRequest: a standalone Request, its service field nil
NewRequest(method, uri) ==
    [method |-> method, uri |-> uri, retries |-> <<>>, service |-> FALSE,
     req |-> <<>>, beforeRequest |-> <<>>, afterHooks |-> <<>>]

\* net/http validMethod, on the methods of the model
validMethod(m) == m \in {"GET", "POST"}
\* net/url Parse succeeds, on the URIs of the model
validURI(u) == u = "http://h/a"

\* Request.Request: the wire request, built once and then reused
\* (method defaults to GET; a build error leaves req.req nil)
Request(r) ==
    IF r.req # <<>> THEN [r |-> r, err |-> FALSE]
    ELSE LET m == IF r.method = "" THEN "GET" ELSE r.method
             rm == [r EXCEPT !.method = m]
         IN IF validMethod(m) /\ validURI(r.uri)
            THEN [r |-> [rm EXCEPT !.req = <<[method |-> m, uri |-> r.uri, header |-> {}]>>],
                  err |-> FALSE]
            ELSE [r |-> rm, err |-> TRUE]

(***************************************************************************)
(* The event log of one execution: hooks run, network attempts, sleeps.    *)
(***************************************************************************)
HookEvent(kind, scope, idx, seen, stop) ==
    [kind |-> kind, scope |-> scope, n |-> idx, seen |-> seen, stop |-> stop]
\* a network attempt and its outcome (n = 1: success, n = 0: failure)
CallEvent(ok) ==
    [kind |-> "call", scope |-> "net", n |-> IF ok THEN 1 ELSE 0, seen |-> {}, stop |-> FALSE]
\* time.Sleep(wait)
SleepEvent(wait) ==
    [kind |-> "sleep", scope |-> "net", n |-> wait, seen |-> {}, stop |-> FALSE]

\* one list of pre-send hooks run in order on the wire headers hdr
RECURSIVE runBefore(_, _, _, _, _)
runBefore(hooks, scope, idx, hdr, log) ==
    IF idx > Len(hooks) THEN [hdr |-> hdr, log |-> log]
    ELSE runBefore(hooks, scope, idx + 1, hdr \cup {hooks[idx]},
                   Append(log, HookEvent("before", scope, idx, hdr, FALSE)))

\* doBeforeRequestHooks with the two scopes in the other order
doBeforeRequestHooksRequestFirst(r, svc, hdr) ==
    LET s == runBefore(r.beforeRequest, "request", 1, hdr, <<>>)
    IN IF r.service THEN runBefore(svc.beforeRequest, "service", 1, s.hdr, s.log) ELSE s

\* Request.doBeforeRequestHooks: the Service's hooks (when a Service is
\* attached), then the Request's
doBeforeRequestHooks(r, svc, hdr) ==
    LET s == IF r.service THEN runBefore(svc.beforeRequest, "service", 1, hdr, <<>>)
                          ELSE [hdr |-> hdr, log |-> <<>>]
    IN runBefore(r.beforeRequest, "request", 1, s.hdr, s.log)

\* a list of post-response hooks evaluated to its end, whatever they answer
RECURSIVE runAfterAll(_, _, _, _)
runAfterAll(hooks, scope, idx, log) ==
    IF idx > Len(hooks) THEN [stop |-> FALSE, log |-> log]
    ELSE runAfterAll(hooks, scope, idx + 1,
                     Append(log, HookEvent("after", scope, idx, {}, hooks[idx])))

\* one list of post-response hooks evaluated in order, to the first stop
RECURSIVE runAfter(_, _, _, _)
runAfter(hooks, scope, idx, log) ==
    IF idx > Len(hooks) THEN [stop |-> FALSE, log |-> log]
    ELSE LET l == Append(log, HookEvent("after", scope, idx, {}, hooks[idx]))
         IN IF hooks[idx] THEN [stop |-> TRUE, log |-> l]
            ELSE runAfter(hooks, scope, idx + 1, l)

\* Request.doAfterHooks: the Service's hooks (when a Service is attached),
\* then the Request's, returning at the first hook that answers stop
doAfterHooks(r, svc) ==
    LET s == IF r.service THEN runAfter(svc.afterHooks, "service", 1, <<>>)
                          ELSE [stop |-> FALSE, log |-> <<>>]
    IN IF s.stop THEN s ELSE runAfter(r.afterHooks, "request", 1, s.log)

(***************************************************************************)
(* service.go: one execution.  outs[k] is the outcome of the k-th call of  *)
(* the transport (TRUE: a response, FALSE: a transport error).             *)
(***************************************************************************)
\* a result of do / Response: rsp, err are "present"; panicked: the call
\* never returned
Result(r, rsp, err, log, panicked) ==
    [req |-> r, rsp |-> rsp, err |-> err, log |-> log, panicked |-> panicked]

\* a _do that wraps a Response around a failed call as well
_doKeepsResponse(r, ok) ==
    IF ~r.service THEN [rsp |-> FALSE, err |-> FALSE, panicked |-> TRUE]
    ELSE [rsp |-> TRUE, err |-> ~ok, panicked |-> FALSE]

\* Request._do: req.service.client.Do(r); a nil service is dereferenced
_do(r, ok) ==
    IF ~r.service THEN [rsp |-> FALSE, err |-> FALSE, panicked |-> TRUE]
    ELSE [rsp |-> ok, err |-> ~ok, panicked |-> FALSE]

\* the test of line 223 that leaves the retry loop
retryReturns(err) == err

\* the retry loop of Request.do (lines 220-226): k calls have been made
RECURSIVE retryLoop(_, _, _, _, _)
retryLoop(r, waits, outs, k, acc) ==
    IF waits = <<>> THEN acc
    ELSE LET c == _do(r, outs[k + 1])
             res == Result(r, c.rsp, c.err,
                           acc.log \o <<SleepEvent(Head(waits)), CallEvent(outs[k + 1])>>,
                           c.panicked)
         IN IF retryReturns(res.err) THEN res
            ELSE retryLoop(r, Tail(waits), outs, k + 1, res)

\* a do that goes to the network although the wire request was not built
doAttemptsAnyway(r0, svc, outs) ==
    LET m == Request(r0)
    IN IF m.err
       THEN Result(m.r, FALSE, TRUE,
                   IF r0.retries = <<>> THEN <<CallEvent(outs[1])>>
                   ELSE <<CallEvent(outs[1]), SleepEvent(Head(r0.retries)),
                          CallEvent(outs[2])>>,
                   FALSE)
       ELSE Result(m.r, outs[1], ~outs[1], <<CallEvent(outs[1])>>, FALSE)

\* Request.do
do(r0, svc, outs) ==
    LET m == Request(r0)
    IN IF m.err THEN Result(m.r, FALSE, TRUE, <<>>, FALSE)
       ELSE LET b == doBeforeRequestHooks(m.r, svc, m.r.req[1].header)
                r == [m.r EXCEPT !.req = <<[m.r.req[1] EXCEPT !.header = b.hdr]>>]
                c == _do(r, outs[1])
                first == Result(r, c.rsp, c.err,
                                IF c.panicked THEN b.log ELSE Append(b.log, CallEvent(outs[1])),
                                c.panicked)
            IN IF first.panicked \/ ~first.err THEN first
               ELSE retryLoop(r, r.retries, outs, 1, first)

\* Request.do up to its first call of the transport (lines 210-214): the
\* wire request is built, or reused, and the pre-send hooks run on it; this
\* is what an execution has done to the Request while it waits for the
\* network
doBefore(r0, svc) ==
    LET m == Request(r0)
    IN IF m.err THEN m.r
       ELSE [m.r EXCEPT !.req =
                <<[m.r.req[1] EXCEPT !.header =
                      doBeforeRequestHooks(m.r, svc, m.r.req[1].header).hdr]>>]

\* Request.Response
Response(r0, svc, outs) ==
    LET d == do(r0, svc, outs)
    IN IF d.panicked THEN d
       ELSE LET a == doAfterHooks(d.req, svc)
            IN [d EXCEPT !.log = d.log \o a.log]

\* the transports of one execution: an outcome for each call it can make
Transports(r) == [1..(Len(r.retries) + 1) -> BOOLEAN]

\* the variables of the Response part, while no Response is read
BytesIdle ==
    /\ response = [body |-> <<>>, err |-> FALSE]
    /\ stream = [rest |-> <<>>, broken |-> FALSE, nobody |-> TRUE, closed |-> FALSE,
                 memory |-> FALSE, reads |-> 0, length |-> 0]
    /\ returns = <<>>

(***************************************************************************)
(* group.go: the Group, its channels and contexts, its goroutines.         *)
(***************************************************************************)
\* the goroutines that call Sync or Async
Callers == {1, 2}

\* a closure started in a range loop reads the loop's variable: the one
\* variable all iterations share (Go before 1.22) or its iteration's own
Builds == {"shared", "periter"}

\* NewGroup
NewGroup(reqs) == [requests |-> reqs, sync |-> 0, async |-> 0, next |-> 0, stop |-> 0]

\* the requests a Group is built from: attached to a Service or standalone
\* (NewRequest), each with a wire request that builds
GroupRequests == {ServiceRequest("", "http://h/a"), NewRequest("", "http://h/a")}

\* a ResponseWrapper on the channel ch, made from the result env of the
\* request req
Envelope(ch, req, env) == [ch |-> ch, req |-> req, rsp |-> env.rsp, err |-> env.err]

\* make(chan *ResponseWrapper, n)
MakeChan(n) == [cap |-> n, buf |-> <<>>, closed |-> FALSE]

\* a goroutine of the Group: a producer (Sync), a coordinator or a worker
\* (Async); i is the request index it stands at, env the envelope it holds,
\* next and stop tell whether the contexts it made last are cancelled, ch is
\* the channel it has loaded to send on, wg its WaitGroup's counter,
\* panicking tells that its deferred function runs because of a panic
Goroutine(kind, pc, i) ==
    [kind |-> kind, pc |-> pc, i |-> i, env |-> [rsp |-> FALSE, err |-> FALSE],
     next |-> FALSE, stop |-> FALSE, ch |-> 0, wg |-> 0, owner |-> 0,
     panicking |-> FALSE]

\* no request of the Group has been executed
NoExecs == [i \in 1..Len(group.requests) |-> 0]

\* a consuming goroutine outside Sync and Async, holding no channel yet
IdleCaller == [pc |-> "idle", ch |-> 0]

\* a goroutine that has returned
Finished(kind) == Goroutine(kind, "done", 0)

\* the history the properties read: calls counts the calls of Sync/Async
\* begun, rets lists what they returned; since a channel was last made:
\* pending tells that an envelope was received and neither Continue nor
\* Stop called since, cont that Continue was called since the last receipt,
\* stray that Continue or Stop was called with no envelope pending, stopAt
\* how many envelopes had been received when Stop answered a pending one;
\* made is the channel the latest call of Sync/Async made (0: none)
NoHistory(calls, rets) ==
    [calls |-> calls, rets |-> rets, pending |-> FALSE, cont |-> FALSE,
     stray |-> FALSE, overlap |-> FALSE, stopAt |-> 0, made |-> 0]

\* the Group part before NewGroup's result is used
GroupIdle ==
    /\ group = NewGroup(<<>>)
    /\ chs = <<>>
    /\ callers = [c \in Callers |-> IdleCaller]
    /\ gor = <<>>
    /\ recv = <<>>
    /\ execd = NoExecs
    /\ crashed = FALSE
    /\ build = "periter"
    /\ ghost = NoHistory(0, <<>>)

\* a Group of at most n requests, in a build of B
GroupOf(n, B) ==
    /\ group \in {NewGroup(reqs) : reqs \in SeqsUpTo(GroupRequests, n)}
    /\ chs = <<>>
    /\ callers = [c \in Callers |-> IdleCaller]
    /\ gor = <<>>
    /\ recv = <<>>
    /\ execd = NoExecs
    /\ crashed = FALSE
    /\ build \in B
    /\ ghost = NoHistory(0, <<>>)
    /\ service = Services0
    /\ request = ServiceRequest("", "http://h/a")
    /\ result = <<>>
    /\ BytesIdle

\* Sync starts no closure in its loop: the build makes no difference to it
GroupInit == GroupOf(MaxReqs, {"periter"})
FairInit == GroupOf(MaxFairReqs, {"periter"})
RaceInit == GroupOf(MaxRaceReqs, {"periter"})
AsyncInit == GroupOf(MaxWorkers, Builds)
AsyncRaceInit == GroupOf(MaxRaceReqs, Builds)

\* a goroutine is sending on channel ch, blocked until a receiver takes it
Sending(ch) == {p \in 1..Len(gor) : gor[p].pc = "sending" /\ gor[p].ch = ch}

\* the goroutine g panics: its deferred function runs before the process
\* ends: a producer's closes the channel and clears the field (lines 45-48),
\* a worker's is wg.Done() (line 79), the coordinator has none
Panicking(g) ==
    IF g.kind = "producer" THEN [g EXCEPT !.pc = "close", !.panicking = TRUE]
    ELSE IF g.kind = "worker" THEN [g EXCEPT !.pc = "unwind"]
    ELSE [g EXCEPT !.pc = "dying"]

\* the goroutines after p has closed the channel ch and goes on at pc: a
\* send that is blocked on the channel closed panics
CloseBy(p, ch, pc) ==
    [q \in 1..Len(gor) |->
        IF q = p THEN [gor[q] EXCEPT !.pc = pc]
        ELSE IF q \in Sending(ch) THEN Panicking(gor[q])
        ELSE gor[q]]

\* the panic of the goroutine p has run its deferred functions and nothing
\* recovered it: the process ends; until then the other goroutines go on
Exit(p) ==
    /\ ~crashed /\ p \in 1..Len(gor) /\ gor[p].pc = "dying"
    /\ crashed' = TRUE
    /\ gor' = [gor EXCEPT ![p].pc = "panic"]
    /\ UNCHANGED <<group, chs, callers, recv, execd, build, ghost>>

\* a consuming goroutine is between two calls of Sync or Async
Idle(c) == callers[c].pc = "idle"

\* the channels once the consumer c has given up the channel it held (it
\* calls Sync or Async again and will hold what the call returns): a channel
\* that no consumer, no field of the Group and no sending goroutine refers to
\* is garbage, and what its buffer held is gone
Collect(c) ==
    [k \in 1..Len(chs) |->
        IF \/ \E d \in Callers \ {c} : callers[d].ch = k
           \/ group.sync = k \/ group.async = k \/ Sending(k) # {}
        THEN chs[k]
        ELSE [chs[k] EXCEPT !.buf = <<>>]]

(***************************************************************************)
(* Group.Sync, by the caller c.                                            *)
(***************************************************************************)
\* line 40: the test of g.sync
SyncCheck(c) ==
    /\ ~crashed
    /\ callers[c].pc = "idle"
    /\ ghost.calls < MaxCalls
    /\ callers' = [callers EXCEPT ![c] = [pc |-> IF group.sync # 0 THEN "ret" ELSE "make",
                                          ch |-> 0]]
    /\ chs' = Collect(c)
    /\ ghost' = [ghost EXCEPT !.calls = @ + 1, !.made = 0,
                              !.overlap = @ \/ \E d \in Callers : ~Idle(d)]
    /\ UNCHANGED <<group, gor, recv, execd, crashed, build>>

\* the first request index the producer's loop stands at, "close" when the
\* range is empty
LoopFrom(reqs, i) == IF i <= Len(reqs) THEN "exec" ELSE "close"

\* lines 43-44: the channel is made and stored, the producer goroutine started
SyncMake(c) ==
    /\ ~crashed
    /\ callers[c].pc = "make"
    /\ chs' = Append(chs, MakeChan(0))
    /\ group' = [group EXCEPT !.sync = Len(chs) + 1]
    /\ gor' = Append(gor, Goroutine("producer", LoopFrom(group.requests, 1), 1))
    /\ callers' = [callers EXCEPT ![c].pc = "ret"]
    /\ recv' = <<>>
    /\ execd' = NoExecs
    /\ ghost' = [NoHistory(ghost.calls, ghost.rets) EXCEPT !.overlap = ghost.overlap,
                                                           !.made = Len(chs) + 1]
    /\ UNCHANGED <<crashed, build>>

\* lines 41 and 66: return g.sync, as it is read now
SyncReturn(c) ==
    /\ ~crashed
    /\ callers[c].pc = "ret"
    /\ callers' = [callers EXCEPT ![c] = [pc |-> "idle", ch |-> group.sync]]
    /\ ghost' = [ghost EXCEPT !.rets = Append(@, group.sync)]
    /\ UNCHANGED <<group, chs, gor, recv, execd, crashed, build>>

(***************************************************************************)
(* The producer goroutine p of Sync (lines 44-65).                         *)
(***************************************************************************)
IsProducer(p) == p \in 1..Len(gor) /\ gor[p].kind = "producer"

\* line 50: req.Response() begins: it leaves the method and the wire
\* request it builds in the Request of the Group, runs the pre-send hooks,
\* and goes to the network (service.go lines 210-214)
ProdRequest(p) ==
    /\ ~crashed /\ IsProducer(p) /\ gor[p].pc = "exec"
    /\ group' = [group EXCEPT !.requests[gor[p].i] = doBefore(@, Services0)]
    /\ gor' = [gor EXCEPT ![p].pc = "do"]
    /\ execd' = [execd EXCEPT ![gor[p].i] = @ + 1]
    /\ UNCHANGED <<chs, callers, recv, crashed, build, ghost>>

\* line 50: req.Response() ends on some transport: rsp, err are assigned;
\* a panic unwinds the goroutine
ProdExec(p) ==
    /\ ~crashed /\ IsProducer(p) /\ gor[p].pc = "do"
    /\ \E outs \in Transports(group.requests[gor[p].i]) :
          LET res == Response(group.requests[gor[p].i], Services0, outs)
          IN gor' = [gor EXCEPT ![p] =
                        IF res.panicked THEN Panicking(@)
                        ELSE [@ EXCEPT !.pc = "storenext",
                                       !.env = [rsp |-> res.rsp, err |-> res.err]]]
    /\ UNCHANGED <<group, chs, callers, recv, execd, crashed, build, ghost>>

\* lines 51-52: a fresh next context, its cancel function stored in g.next
\* (a cancel function is named by the goroutine whose latest context of the
\* kind it cancels: the contexts a goroutine made before are no longer
\* waited on)
ProdStoreNext(p) ==
    /\ ~crashed /\ IsProducer(p) /\ gor[p].pc = "storenext"
    /\ group' = [group EXCEPT !.next = p]
    /\ gor' = [gor EXCEPT ![p].pc = "storestop", ![p].next = FALSE]
    /\ UNCHANGED <<chs, callers, recv, execd, crashed, build, ghost>>

\* lines 53-54: a fresh stop context, its cancel function stored in g.stop
ProdStoreStop(p) ==
    /\ ~crashed /\ IsProducer(p) /\ gor[p].pc = "storestop"
    /\ group' = [group EXCEPT !.stop = p]
    /\ gor' = [gor EXCEPT ![p].pc = "load", ![p].stop = FALSE]
    /\ UNCHANGED <<chs, callers, recv, execd, crashed, build, ghost>>

\* line 55: the operand g.sync of the send is read
ProdLoad(p) ==
    /\ ~crashed /\ IsProducer(p) /\ gor[p].pc = "load"
    /\ gor' = [gor EXCEPT ![p].pc = "send", ![p].ch = group.sync]
    /\ UNCHANGED <<group, chs, callers, recv, execd, crashed, build, ghost>>

\* line 55: the send on the channel read begins: on a nil channel it blocks
\* for ever, on a closed one it panics, else it waits for a receiver
ProdSend(p) ==
    /\ ~crashed /\ IsProducer(p) /\ gor[p].pc = "send"
    /\ gor' = [gor EXCEPT ![p] =
                  IF @.ch = 0 THEN [@ EXCEPT !.pc = "blocked"]
                  ELSE IF chs[@.ch].closed THEN Panicking(@)
                  ELSE [@ EXCEPT !.pc = "sending"]]
    /\ UNCHANGED <<group, chs, callers, recv, execd, crashed, build, ghost>>

\* a range loop that leaves out every other element
nextIndexSkipping(i) == i + 2

\* the index the range loop of line 49 takes after i
nextIndex(i) == i + 1

\* lines 59-60: the select returns on next.Done(): the loop goes on
ProdWaitNext(p) ==
    /\ ~crashed /\ IsProducer(p) /\ gor[p].pc = "wait"
    /\ gor[p].next
    /\ gor' = [gor EXCEPT ![p].pc = LoopFrom(group.requests, nextIndex(gor[p].i)),
                          ![p].i = nextIndex(gor[p].i)]
    /\ UNCHANGED <<group, chs, callers, recv, execd, crashed, build, ghost>>

\* lines 61-62: the select returns on stop.Done(): the goroutine returns
ProdWaitStop(p) ==
    /\ ~crashed /\ IsProducer(p) /\ gor[p].pc = "wait"
    /\ gor[p].stop
    /\ gor' = [gor EXCEPT ![p].pc = "close"]
    /\ UNCHANGED <<group, chs, callers, recv, execd, crashed, build, ghost>>

\* a deferred function that does not close the channel
ProdCloseLeavesOpen(p) ==
    /\ ~crashed /\ IsProducer(p) /\ gor[p].pc = "close"
    /\ gor' = [gor EXCEPT ![p].pc = "clear"]
    /\ UNCHANGED <<group, chs, callers, recv, execd, crashed, build, ghost>>

\* line 46: close(g.sync), in the deferred function; closing a nil or a
\* closed channel panics, in the only deferred function of the goroutine,
\* and so does a send that is blocked on the channel closed
ProdClose(p) ==
    /\ ~crashed /\ IsProducer(p) /\ gor[p].pc = "close"
    /\ IF group.sync = 0 \/ (group.sync # 0 /\ chs[group.sync].closed)
       THEN /\ gor' = [gor EXCEPT ![p].pc = "dying"]
            /\ UNCHANGED chs
       ELSE /\ chs' = [chs EXCEPT ![group.sync].closed = TRUE]
            /\ gor' = CloseBy(p, group.sync, "clear")
    /\ UNCHANGED <<group, callers, recv, execd, crashed, build, ghost>>

\* line 47: g.sync = nil; the goroutine returns, or the panic that ran the
\* deferred function goes on
ProdClear(p) ==
    /\ ~crashed /\ IsProducer(p) /\ gor[p].pc = "clear"
    /\ group' = [group EXCEPT !.sync = 0]
    /\ gor' = [gor EXCEPT ![p] = IF @.panicking THEN [@ EXCEPT !.pc = "dying"]
                                 ELSE Finished("producer")]
    /\ UNCHANGED <<chs, callers, recv, execd, crashed, build, ghost>>

(***************************************************************************)
(* The consumer: receives on a channel it was given, Continue, Stop.       *)
(***************************************************************************)
\* a receive of the consumer c on its unbuffered channel meets the send of
\* goroutine p
Receive(c, p) ==
    /\ ~crashed
    /\ Idle(c) /\ callers[c].ch # 0 /\ p \in Sending(callers[c].ch)
    /\ recv' = Append(recv, Envelope(callers[c].ch, gor[p].i, gor[p].env))
    /\ gor' = [gor EXCEPT ![p].pc = "wait"]
    /\ ghost' = [ghost EXCEPT !.pending = TRUE, !.cont = FALSE]
    /\ UNCHANGED <<group, chs, callers, execd, crashed, build>>

\* Group.Continue: the cancel function g.next points at, when there is one
\* (cancelling a context of a goroutine that has returned changes nothing)
Continue(c) ==
    /\ ~crashed /\ Idle(c)
    /\ gor' = IF group.next # 0 /\ gor[group.next].pc # "done"
              THEN [gor EXCEPT ![group.next].next = TRUE] ELSE gor
    /\ ghost' = [ghost EXCEPT !.pending = FALSE, !.cont = TRUE,
                              !.stray = @ \/ ~ghost.pending]
    /\ UNCHANGED <<group, chs, callers, recv, execd, crashed, build>>

\* Group.Stop: the cancel function g.stop points at, when there is one
Stop(c) ==
    /\ ~crashed /\ Idle(c)
    /\ gor' = IF group.stop # 0 /\ gor[group.stop].pc # "done"
              THEN [gor EXCEPT ![group.stop].stop = TRUE] ELSE gor
    /\ ghost' = [ghost EXCEPT !.pending = FALSE,
                              !.stray = @ \/ ~ghost.pending,
                              !.stopAt = IF ghost.pending /\ @ = 0 THEN Len(recv) ELSE @]
    /\ UNCHANGED <<group, chs, callers, recv, execd, crashed, build>>

\* the steps of a Group consumed through Sync, by the callers in C
SyncSteps(C) ==
    /\ UNCHANGED <<execVars, bytesVars>>
    /\ \/ \E c \in C : SyncCheck(c) \/ SyncMake(c) \/ SyncReturn(c)
       \/ \E p \in 1..Len(gor) :
             \/ ProdRequest(p) \/ ProdExec(p) \/ ProdStoreNext(p) \/ ProdStoreStop(p)
             \/ ProdLoad(p) \/ ProdSend(p)
             \/ ProdWaitNext(p) \/ ProdWaitStop(p)
             \/ ProdClose(p) \/ ProdClear(p) \/ Exit(p)
       \/ \E c \in C, p \in 1..Len(gor) : Receive(c, p)
       \/ \E c \in C : Continue(c)
       \/ \E c \in C : Stop(c)

\* one goroutine calls Sync, receives, calls Continue and Stop
SyncNext == SyncSteps({1})
\* the steps of the goroutines Sync started: the scheduler runs a goroutine
\* that can run
ProducerSteps ==
    /\ UNCHANGED <<execVars, bytesVars>>
    /\ \E p \in 1..Len(gor) :
          \/ ProdRequest(p) \/ ProdExec(p) \/ ProdStoreNext(p) \/ ProdStoreStop(p)
          \/ ProdLoad(p) \/ ProdSend(p)
          \/ ProdWaitNext(p) \/ ProdWaitStop(p)
          \/ ProdClose(p) \/ ProdClear(p) \/ Exit(p)
\* the steps of a consumer that goes on: it returns from a call of Sync it
\* is in, receives the envelope offered and answers it by Continue
ConsumerSteps ==
    /\ UNCHANGED <<execVars, bytesVars>>
    /\ \/ SyncMake(1) \/ SyncReturn(1)
       \/ \E p \in 1..Len(gor) : Receive(1, p)
       \/ ghost.pending /\ Continue(1)
\* two goroutines call Sync on the Group
SyncRaceNext == SyncSteps(Callers)

(***************************************************************************)
(* Group.Async, by the caller c.                                           *)
(***************************************************************************)
\* line 70: the test of g.async
AsyncCheck(c) ==
    /\ ~crashed
    /\ callers[c].pc = "idle"
    /\ ghost.calls < MaxCalls
    /\ callers' = [callers EXCEPT ![c] = [pc |-> IF group.async # 0 THEN "ret" ELSE "make",
                                          ch |-> 0]]
    /\ chs' = Collect(c)
    /\ ghost' = [ghost EXCEPT !.calls = @ + 1, !.made = 0,
                              !.overlap = @ \/ \E d \in Callers : ~Idle(d)]
    /\ UNCHANGED <<group, gor, recv, execd, crashed, build>>

\* lines 73-74: the channel is made with room for one envelope per request
\* and stored, the coordinating goroutine started
AsyncMake(c) ==
    /\ ~crashed
    /\ callers[c].pc = "make"
    /\ chs' = Append(chs, MakeChan(Len(group.requests)))
    /\ group' = [group EXCEPT !.async = Len(chs) + 1]
    /\ gor' = Append(gor, Goroutine("coordinator", "loop", 1))
    /\ callers' = [callers EXCEPT ![c].pc = "ret"]
    /\ recv' = <<>>
    /\ execd' = NoExecs
    /\ ghost' = [NoHistory(ghost.calls, ghost.rets) EXCEPT !.overlap = ghost.overlap,
                                                           !.made = Len(chs) + 1]
    /\ UNCHANGED <<crashed, build>>

\* lines 71 and 91: return g.async, as it is read now
AsyncReturn(c) ==
    /\ ~crashed
    /\ callers[c].pc = "ret"
    /\ callers' = [callers EXCEPT ![c] = [pc |-> "idle", ch |-> group.async]]
    /\ ghost' = [ghost EXCEPT !.rets = Append(@, group.async)]
    /\ UNCHANGED <<group, chs, gor, recv, execd, crashed, build>>

(***************************************************************************)
(* The coordinating goroutine k of Async (lines 74-90) and its workers.    *)
(***************************************************************************)
IsCoordinator(k) == k \in 1..Len(gor) /\ gor[k].kind = "coordinator"
IsWorker(w) == w \in 1..Len(gor) /\ gor[w].kind = "worker"

\* lines 76-78: one iteration of the loop: req takes the request i,
\* wg.Add(1), a worker is started
CoordSpawn(k) ==
    /\ ~crashed /\ IsCoordinator(k) /\ gor[k].pc = "loop"
    /\ gor[k].i <= Len(group.requests)
    /\ gor' = Append([gor EXCEPT ![k].i = @ + 1, ![k].wg = @ + 1],
                     [Goroutine("worker", "exec", gor[k].i) EXCEPT !.owner = k])
    /\ UNCHANGED <<group, chs, callers, recv, execd, crashed, build, ghost>>

\* line 76: the range is exhausted
CoordLoopEnd(k) ==
    /\ ~crashed /\ IsCoordinator(k) /\ gor[k].pc = "loop"
    /\ gor[k].i > Len(group.requests)
    /\ gor' = [gor EXCEPT ![k].pc = "wait"]
    /\ UNCHANGED <<group, chs, callers, recv, execd, crashed, build, ghost>>

\* line 87: wg.Wait() returns when the counter is zero
CoordWait(k) ==
    /\ ~crashed /\ IsCoordinator(k) /\ gor[k].pc = "wait"
    /\ gor[k].wg = 0
    /\ gor' = [gor EXCEPT ![k].pc = "close"]
    /\ UNCHANGED <<group, chs, callers, recv, execd, crashed, build, ghost>>

\* line 88: close(g.async); closing a nil or a closed channel panics, and so
\* does a send that is blocked on the channel closed
CoordClose(k) ==
    /\ ~crashed /\ IsCoordinator(k) /\ gor[k].pc = "close"
    /\ IF group.async = 0 \/ (group.async # 0 /\ chs[group.async].closed)
       THEN /\ gor' = [gor EXCEPT ![k] = Panicking(@)]
            /\ UNCHANGED chs
       ELSE /\ chs' = [chs EXCEPT ![group.async].closed = TRUE]
            /\ gor' = CloseBy(k, group.async, "clear")
    /\ UNCHANGED <<group, callers, recv, execd, crashed, build, ghost>>

\* line 89: g.async = nil
CoordClear(k) ==
    /\ ~crashed /\ IsCoordinator(k) /\ gor[k].pc = "clear"
    /\ group' = [group EXCEPT !.async = 0]
    /\ gor' = [gor EXCEPT ![k] = Finished("coordinator")]
    /\ UNCHANGED <<chs, callers, recv, execd, crashed, build, ghost>>

\* the request the closure of worker w reads in req: its iteration's own,
\* or what the shared variable holds now (the request of the last iteration
\* begun)
loopVar(w) ==
    IF build = "periter" THEN gor[w].i ELSE gor[gor[w].owner].i - 1

\* line 80: req is read and req.Response() begins: it leaves the method and
\* the wire request it builds in the Request of the Group, runs the
\* pre-send hooks, and goes to the network (service.go lines 210-214)
WorkRequest(w) ==
    /\ ~crashed /\ IsWorker(w) /\ gor[w].pc = "exec"
    /\ group' = [group EXCEPT !.requests[loopVar(w)] = doBefore(@, Services0)]
    /\ gor' = [gor EXCEPT ![w].pc = "do", ![w].i = loopVar(w)]
    /\ execd' = [execd EXCEPT ![loopVar(w)] = @ + 1]
    /\ UNCHANGED <<chs, callers, recv, crashed, build, ghost>>

\* line 80: req.Response() ends on some transport: rsp, err are assigned;
\* a panic unwinds the goroutine
WorkExec(w) ==
    /\ ~crashed /\ IsWorker(w) /\ gor[w].pc = "do"
    /\ \E outs \in Transports(group.requests[gor[w].i]) :
          LET res == Response(group.requests[gor[w].i], Services0, outs)
          IN gor' = [gor EXCEPT ![w] =
                        IF res.panicked THEN Panicking(@)
                        ELSE [@ EXCEPT !.pc = "load",
                                       !.env = [rsp |-> res.rsp, err |-> res.err]]]
    /\ UNCHANGED <<group, chs, callers, recv, execd, crashed, build, ghost>>

\* line 79, deferred: wg.Done() of a worker that panicked; the panic goes
\* on
WorkUnwind(w) ==
    /\ ~crashed /\ IsWorker(w) /\ gor[w].pc = "unwind"
    /\ gor' = [gor EXCEPT ![w].pc = "dying", ![gor[w].owner].wg = @ - 1]
    /\ UNCHANGED <<group, chs, callers, recv, execd, crashed, build, ghost>>

\* line 81: the operand g.async of the send is read
WorkLoad(w) ==
    /\ ~crashed /\ IsWorker(w) /\ gor[w].pc = "load"
    /\ gor' = [gor EXCEPT ![w].pc = "send", ![w].ch = group.async]
    /\ UNCHANGED <<group, chs, callers, recv, execd, crashed, build, ghost>>

\* the envelope of worker w enters the buffer of ch, the worker returns
\* and its deferred wg.Done() runs (line 79)
Put(w, ch) ==
    /\ chs' = [chs EXCEPT ![ch].buf = Append(@, Envelope(ch, gor[w].i, gor[w].env))]
    /\ gor' = [gor EXCEPT ![w] = Finished("worker"), ![gor[w].owner].wg = @ - 1]

\* line 81: the send on the channel read: on a nil channel it blocks for
\* ever, on a closed one it panics, on a full one it waits for room
WorkSend(w) ==
    /\ ~crashed /\ IsWorker(w) /\ gor[w].pc = "send"
    /\ IF gor[w].ch = 0
       THEN gor' = [gor EXCEPT ![w].pc = "blocked"] /\ UNCHANGED chs
       ELSE IF chs[gor[w].ch].closed
       THEN gor' = [gor EXCEPT ![w] = Panicking(@)] /\ UNCHANGED chs
       ELSE IF Len(chs[gor[w].ch].buf) < chs[gor[w].ch].cap
       THEN Put(w, gor[w].ch)
       ELSE gor' = [gor EXCEPT ![w].pc = "sending"] /\ UNCHANGED chs
    /\ UNCHANGED <<group, callers, recv, execd, crashed, build, ghost>>

\* line 81: a send that waited finds room
WorkPut(w) ==
    /\ ~crashed /\ IsWorker(w) /\ gor[w].pc = "sending"
    /\ Len(chs[gor[w].ch].buf) < chs[gor[w].ch].cap
    /\ Put(w, gor[w].ch)
    /\ UNCHANGED <<group, callers, recv, execd, crashed, build, ghost>>

\* a receive of the consumer c on its buffered channel takes the oldest
\* envelope
AsyncReceive(c) ==
    /\ ~crashed
    /\ Idle(c) /\ callers[c].ch # 0 /\ chs[callers[c].ch].buf # <<>>
    /\ recv' = Append(recv, Head(chs[callers[c].ch].buf))
    /\ chs' = [chs EXCEPT ![callers[c].ch].buf = Tail(@)]
    /\ UNCHANGED <<group, callers, gor, execd, crashed, build, ghost>>

\* the steps of a Group consumed through Async, by the callers in C
AsyncSteps(C) ==
    /\ UNCHANGED <<execVars, bytesVars>>
    /\ \/ \E c \in C : AsyncCheck(c) \/ AsyncMake(c) \/ AsyncReturn(c)
       \/ \E k \in 1..Len(gor) :
             \/ CoordSpawn(k) \/ CoordLoopEnd(k) \/ CoordWait(k)
             \/ CoordClose(k) \/ CoordClear(k)
       \/ \E w \in 1..Len(gor) :
             \/ WorkRequest(w) \/ WorkExec(w) \/ WorkUnwind(w) \/ WorkLoad(w)
             \/ WorkSend(w) \/ WorkPut(w) \/ Exit(w)
       \/ \E c \in C : AsyncReceive(c)

\* one goroutine calls Async and receives
AsyncNext == AsyncSteps({1})
\* the steps of the goroutines Async started: the scheduler runs a goroutine
\* that can run
WorkerSteps ==
    /\ UNCHANGED <<execVars, bytesVars>>
    /\ \/ \E k \in 1..Len(gor) :
             \/ CoordSpawn(k) \/ CoordLoopEnd(k) \/ CoordWait(k)
             \/ CoordClose(k) \/ CoordClear(k)
       \/ \E w \in 1..Len(gor) :
             \/ WorkRequest(w) \/ WorkExec(w) \/ WorkUnwind(w) \/ WorkLoad(w)
             \/ WorkSend(w) \/ WorkPut(w) \/ Exit(w)
\* two goroutines call Async on the Group
AsyncRaceNext == AsyncSteps(Callers)

(***************************************************************************)
(* Specification Spec: one Request, configured and executed.               *)
(***************************************************************************)
ExecInit ==
    /\ service \in Services
    /\ request \in {ServiceRequest(m, u) : m \in Methods, u \in URIs}
                   \cup {NewRequest(m, u) : m \in Methods, u \in URIs}
    /\ (~request.service => service = Services0)
    /\ result = <<>>

\* Request.RetryDelay
RetryDelay(retries) ==
    /\ request' = [request EXCEPT !.retries = retries]
    /\ UNCHANGED <<service, result, bytesVars, groupVars>>

\* Request.BeforeRequest with one hook
BeforeRequest ==
    /\ Len(request.beforeRequest) < MaxHooks
    /\ request' = [request EXCEPT !.beforeRequest =
                      Append(@, RequestBefore[Len(@) + 1])]
    /\ UNCHANGED <<service, result, bytesVars, groupVars>>

\* Request.AfterExec with one hook
AfterExec(stop) ==
    /\ Len(request.afterHooks) < MaxHooks
    /\ request' = [request EXCEPT !.afterHooks = Append(@, stop)]
    /\ UNCHANGED <<service, result, bytesVars, groupVars>>

\* a call of Request.Request by the program: the wire request is built (or
\* the one built before returned), nothing is executed
CallRequest ==
    /\ request' = Request(request).r
    /\ UNCHANGED <<service, result, bytesVars, groupVars>>

\* a call of Request.Response on a transport outs
Execute(outs) ==
    LET res == Response(request, service, outs)
    IN /\ request' = res.req
       /\ result' = <<[rsp |-> res.rsp, err |-> res.err, log |-> res.log,
                        panicked |-> res.panicked, outs |-> outs]>>
       /\ UNCHANGED <<service, bytesVars, groupVars>>

ExecNext ==
    \/ \E retries \in SeqsUpTo(Delay, MaxRetries) : result = <<>> /\ RetryDelay(retries)
    \/ result = <<>> /\ BeforeRequest
    \/ \E stop \in BOOLEAN : result = <<>> /\ AfterExec(stop)
    \/ result = <<>> /\ CallRequest
    \/ \E outs \in Transports(request) : result = <<>> /\ Execute(outs)

(***************************************************************************)
(* Properties of one execution (specification Spec).                       *)
(***************************************************************************)
\* the execution has returned a result to its caller
Returned == result # <<>> /\ ~result[1].panicked
\* the events of one kind in a log
EventsOf(log, kind) == SelectSeq(log, LAMBDA e : e.kind = kind)
\* the network attempts of the execution, and the delays it slept
Attempts == EventsOf(result[1].log, "call")
Slept == [i \in 1..Len(EventsOf(result[1].log, "sleep")) |->
             EventsOf(result[1].log, "sleep")[i].n]
\* the execution ran on a Service-attached Request whose wire request was built
RanOnTransport == Returned /\ request.service /\ request.req # <<>>
\* the transport fails every call
AllFail(outs) == \A k \in DOMAIN outs : ~outs[k]
\* the transport fails exactly its first n calls and then succeeds
FailsFirst(outs, n) == (\A k \in 1..n : ~outs[k]) /\ outs[n + 1]

\* C1: with a retry-delay sequence of length N and a transport on which
\* every call fails, one execution makes exactly N+1 network attempts and
\* returns the failure of the last attempt.
C1_AllFailMakesNPlus1Attempts ==
    (RanOnTransport /\ AllFail(result[1].outs)) =>
        /\ Len(Attempts) = Len(request.retries) + 1
        /\ result[1].err /\ ~result[1].rsp

\* C2: with a retry-delay sequence of length N and a transport that fails
\* exactly its first N calls and then succeeds, one execution returns success
\* after exactly N+1 attempts, having slept the N delays in their listed
\* order, one before each retry.
C2_FailNThenSucceed ==
    (RanOnTransport /\ FailsFirst(result[1].outs, Len(request.retries))) =>
        /\ result[1].rsp /\ ~result[1].err
        /\ Len(Attempts) = Len(request.retries) + 1
        /\ Slept = request.retries

\* the wire request could not be built
MaterializationFailed == result # <<>> /\ request.req = <<>>

\* C3: when materialization of the wire request fails, the execution invokes
\* no pre-send hook and no post-response hook of either scope.
C3_NoHookOnMaterializationFailure ==
    MaterializationFailed =>
        \A i \in 1..Len(result[1].log) : result[1].log[i].kind \notin {"before", "after"}

\* the positions of the log holding a hook of a phase and a scope
HooksAt(log, phase, scope) ==
    {i \in 1..Len(log) : log[i].kind = phase /\ log[i].scope = scope}
\* the hooks at the positions P of the log ran in list order: 1, 2, ...
InListOrder(log, P) ==
    \A i \in P : log[i].n = Cardinality({j \in P : j <= i})

\* C10: within one execution every shared-scope pre-send hook runs, in list
\* order, before any request-scope pre-send hook, and a header set by a
\* shared hook is seen by every request-scope hook; every shared-scope
\* post-response hook is evaluated before any request-scope post-response hook.
C10_SharedHooksFirst ==
    result # <<>> =>
        LET log == result[1].log
            sb == HooksAt(log, "before", "service")
            rb == HooksAt(log, "before", "request")
            sa == HooksAt(log, "after", "service")
            ra == HooksAt(log, "after", "request")
            shared == IF request.service THEN service.beforeRequest ELSE <<>>
        IN /\ \A i \in sb, j \in rb : i < j
           /\ InListOrder(log, sb) /\ InListOrder(log, rb)
           /\ rb # {} => Cardinality(sb) = Len(shared)
           /\ \A j \in rb : {shared[k] : k \in 1..Len(shared)} \subseteq log[j].seen
           /\ \A i \in sa, j \in ra : i < j
           /\ InListOrder(log, sa) /\ InListOrder(log, ra)
           /\ ra # {} => Cardinality(sa) = Len(service.afterHooks) \/ ~request.service

\* an execution in which hooks of both scopes ran in both phases
C10_Witness ==
    /\ result # <<>>
    /\ Cardinality(HooksAt(result[1].log, "before", "service")) = 2
    /\ Cardinality(HooksAt(result[1].log, "before", "request")) = 2
    /\ HooksAt(result[1].log, "after", "service") # {}
    /\ Cardinality(HooksAt(result[1].log, "after", "request")) = 2

\* C12: every result an execution returns has exactly one of response and
\* error present, for every retry-delay sequence and every pattern of
\* transport successes and failures.
C12_ExactlyOneOfResponseError ==
    Returned => (result[1].rsp <=> ~result[1].err)

\* a success returned after a failed first call and all the retries
C12_Witness ==
    /\ Returned /\ result[1].rsp /\ ~result[1].err
    /\ Len(request.retries) = 2 /\ Len(Attempts) = 3

\* C13: when the wire request cannot be built, the execution returns the
\* error with no response, makes no network attempt and sleeps no retry
\* delay, whatever retry delays are configured.
C13_MaterializationFailureReturnsAtOnce ==
    MaterializationFailed =>
        /\ ~result[1].panicked
        /\ result[1].err /\ ~result[1].rsp
        /\ Attempts = <<>> /\ Slept = <<>>

\* a Request with retry delays whose wire request could not be built
C13_Witness ==
    /\ MaterializationFailed /\ Len(request.retries) = 2
    /\ result[1].err
\* the positions of the log holding a network attempt that succeeded
Successes == {i \in 1..Len(result[1].log) :
                 result[1].log[i].kind = "call" /\ result[1].log[i].n = 1}

\* C14: within one execution retrying stops as soon as a call succeeds: no
\* sleep and no further attempt follows a successful attempt, and the result
\* returned is that successful response.
C14_RetryStopsAtSuccess ==
    (Returned /\ Successes # {}) =>
        /\ \A i \in Successes : \A j \in 1..Len(result[1].log) :
              j > i => result[1].log[j].kind \notin {"call", "sleep"}
        /\ result[1].rsp /\ ~result[1].err

\* the positions of the log holding a post-response hook
AfterHooksAt == {i \in 1..Len(result[1].log) : result[1].log[i].kind = "after"}
\* the post-response hooks the execution can reach: the Service's when one
\* is attached, then the Request's
AfterHooksOf ==
    (IF request.service THEN service.afterHooks ELSE <<>>) \o request.afterHooks

\* C15: post-response hooks are evaluated in order and evaluation halts at
\* the first hook that answers stop: the hooks evaluated are those up to and
\* including the first stop, none after it in either scope, and the result
\* is returned to the caller all the same.
C15_AfterHooksHaltAtStop ==
    Returned =>
        /\ \A i \in AfterHooksAt : \A j \in AfterHooksAt :
              i < j => ~result[1].log[i].stop
        /\ [k \in 1..Cardinality(AfterHooksAt) |-> AfterHooksOf[k]]
               = [k \in 1..Cardinality(AfterHooksAt) |->
                     EventsOf(result[1].log, "after")[k].stop]
        /\ Cardinality(AfterHooksAt) = Len(AfterHooksOf)
              \/ AfterHooksOf[Cardinality(AfterHooksAt)]

\* a Service hook answered stop with hooks of both scopes left, and the
\* successful result was returned
C15_Witness ==
    /\ Returned /\ result[1].rsp
    /\ service.afterHooks = <<FALSE, TRUE>> /\ Len(request.afterHooks) = 2
    /\ Cardinality(AfterHooksAt) = 2

\* C20: executing a request never crashes the caller: Request.Response
\* returns a result for a Request made by Service.Request and for one made
\* by NewRequest alike.
C20_ResponseAlwaysReturns ==
    result # <<>> => ~result[1].panicked

(***************************************************************************)
(* service.go: Response.Bytes and Response.Dump.  response.body is <<>>    *)
(* for a nil slice and <<bs>> for the bytes bs; stream is the wire         *)
(* response's Body.                                                        *)
(***************************************************************************)
\* ioutil.ReadAll on the Body: the bytes left and nil at EOF; the bytes that
\* arrived and an error when the connection breaks; an error when the Body
\* has been closed, unless it is http.NoBody (a response without content),
\* which reads as empty whether closed or not, or the memory copy that
\* Dump put in its place (a NopCloser: Close does nothing to it)
\* (reads counts the reads of a network stream, which those two are not)
ReadAll(st) ==
    IF st.nobody THEN [bs |-> <<>>, err |-> FALSE, st |-> st]
    ELSE IF st.memory
    THEN [bs |-> st.rest, err |-> FALSE, st |-> [st EXCEPT !.rest = <<>>]]
    ELSE IF st.closed
    THEN [bs |-> <<>>, err |-> TRUE, st |-> [st EXCEPT !.reads = @ + 1]]
    ELSE [bs |-> st.rest, err |-> st.broken,
          st |-> [st EXCEPT !.rest = <<>>, !.reads = @ + 1]]

\* Response.Bytes: the cached result when one of body, err is set, else one
\* ReadAll of the Body, which is closed when the read succeeded; neither
\* rsp.body nor rsp.err is assigned
Bytes(rsp, st) ==
    IF rsp.body # <<>> \/ rsp.err
    THEN [rsp |-> rsp, st |-> st,
          bs |-> IF rsp.body = <<>> THEN <<>> ELSE rsp.body[1], err |-> rsp.err]
    ELSE LET rd == ReadAll(st)
         IN IF rd.err THEN [rsp |-> rsp, st |-> rd.st, bs |-> rd.bs, err |-> TRUE]
            ELSE [rsp |-> rsp, st |-> [rd.st EXCEPT !.closed = TRUE],
                  bs |-> rd.bs, err |-> FALSE]

\* httputil.DumpResponse(rsp.rsp, true) of line 316.  drainBody leaves
\* http.NoBody alone; any other Body is read to its end and, when the read
\* succeeded, closed and replaced by a memory copy of what was read; when
\* the read failed the Body stays, read so far, and DumpResponse returns the
\* error.  Response.Write then writes the bytes read and fails when the
\* reply declared a Content-Length (length, -1 when it declared none) that
\* is not their number: the Body is replaced all the same, and DumpResponse
\* returns the error
DumpResponse(st) ==
    IF st.nobody THEN [st |-> st, err |-> FALSE]
    ELSE LET rd == ReadAll(st)
         IN IF rd.err THEN [st |-> rd.st, err |-> TRUE]
            ELSE [st |-> [rd.st EXCEPT !.rest = rd.bs, !.memory = TRUE, !.closed = TRUE],
                  err |-> st.length # -1 /\ st.length # Len(rd.bs)]

\* the Response of a successful _do (lines 193-196), the Body it wraps and
\* the Request it belongs to, its wire request built.  A reply that declares
\* Content-Length 0 has http.NoBody; a Body read from the network holds the
\* number of bytes the reply declared, or any number (none too) when it
\* declared none (a chunked reply); a Body whose connection breaks holds
\* fewer bytes than were declared
BytesInit ==
    /\ response = [body |-> <<>>, err |-> FALSE]
    /\ stream \in {st \in [rest : SeqsUpTo({0, 1}, MaxBody), broken : BOOLEAN,
                              nobody : BOOLEAN, closed : {FALSE},
                              memory : {FALSE}, reads : {0},
                              length : -1..(MaxBody + 1)] :
                        /\ st.nobody <=> st.length = 0
                        /\ st.nobody => (st.rest = <<>> /\ ~st.broken)
                        /\ (~st.broken /\ st.length # -1) => st.length = Len(st.rest)
                        /\ (st.broken /\ st.length # -1) => st.length = Len(st.rest) + 1}
    /\ returns = <<>>
    /\ service = Services0
    /\ request \in {doBefore(ServiceRequest(m, "http://h/a"), Services0) :
                         m \in {"", "POST"}}
    /\ result = <<>>
    /\ GroupIdle

\* a call of Response.Bytes
CallBytes ==
    LET b == Bytes(response, stream)
    IN /\ Len(returns) < MaxBytesCalls
       /\ response' = b.rsp
       /\ stream' = b.st
       /\ returns' = Append(returns, [op |-> "Bytes", bs |-> b.bs, err |-> b.err])
       /\ UNCHANGED <<execVars, groupVars>>

\* a call of Response.Dump (lines 311-324): the Body is read, closed and
\* replaced by a copy in memory; err tells that DumpResponse failed (the
\* Body could not be read, or holds another number of bytes than the reply
\* declared) and Dump returned nil
CallDump ==
    LET d == DumpResponse(stream)
    IN /\ Len(returns) < MaxBytesCalls
       /\ stream' = d.st
       /\ returns' = Append(returns, [op |-> "Dump", bs |-> <<>>, err |-> d.err])
       /\ UNCHANGED <<response, execVars, groupVars>>

BytesNext == CallBytes \/ CallDump

\* what the calls of Response.Bytes returned, in order
BytesReturned == SelectSeq(returns, LAMBDA e : e.op = "Bytes")

\* C9: reading the body is idempotent: all calls of Response.Bytes on the
\* Response of a successful execution return the same bytes and the same
\* error, and the Body is read at most once.
C9_BytesIdempotent ==
    /\ \A i, j \in 1..Len(BytesReturned) : BytesReturned[i] = BytesReturned[j]
    /\ stream.reads <= 1

(***************************************************************************)
(* Properties of a Group consumed through Sync (SpecSync, SpecSyncFair,    *)
(* SpecSyncRace).                                                          *)
(***************************************************************************)
\* where a producer stands while its loop runs
InLoop == {"exec", "do", "storenext", "storestop", "load", "send", "sending", "wait"}
\* the producers inside the loop over the requests
Looping == {p \in 1..Len(gor) : gor[p].kind = "producer" /\ gor[p].pc \in InLoop}
\* the goroutines that have not returned
Live(kind) == {p \in 1..Len(gor) : gor[p].kind = kind /\ gor[p].pc # "done"}
\* the envelopes in flight: sent and not yet received
InFlight == {p \in 1..Len(gor) : gor[p].pc = "sending"}
\* the requests after the i-th have not been executed
NoneExecutedAfter(i) ==
    \A j \in 1..Len(group.requests) : j > i => execd[j] = 0
\* the envelope env is a result of executing the request req
ResultOf(env, req) ==
    \E outs \in Transports(req) :
        /\ Response(req, Services0, outs).rsp = env.rsp
        /\ Response(req, Services0, outs).err = env.err

\* C4: in sequential mode, whatever Continue and Stop calls the consumer
\* makes, at most one envelope is in flight, and while envelope i has been
\* received and neither Continue nor Stop called since, the producer stays
\* in the wait that follows envelope i: it has not begun request i+1.  (A
\* Continue called with no delivery pending releases no later wait.)
C4_OneInFlightUntilContinue ==
    /\ Cardinality(InFlight) <= 1
    /\ ghost.pending =>
          /\ NoneExecutedAfter(Len(recv))
          /\ \A p \in Looping : gor[p].pc = "wait" /\ gor[p].i = Len(recv)

\* C5: in sequential mode with a consumer that calls Continue or Stop only
\* to answer an envelope it received, the i-th envelope received is a result
\* of the i-th request, each request is executed at most once, the requests
\* up to the last envelope exactly once, and no request beyond the one after
\* the last envelope, which is not begun before that envelope is answered.
C5_InListOrder ==
    ~ghost.stray =>
        /\ \A j \in 1..Len(recv) :
              /\ recv[j].req = j
              /\ ResultOf(recv[j], group.requests[j])
        /\ \A i \in 1..Len(group.requests) :
              /\ execd[i] <= 1
              /\ i <= Len(recv) => execd[i] = 1
        /\ NoneExecutedAfter(Len(recv) + 1)
        /\ ghost.pending => NoneExecutedAfter(Len(recv))

\* three envelopes received, each answered by one Continue before the next
C5_Witness ==
    /\ Len(recv) = 3 /\ ~ghost.stray /\ ghost.stopAt = 0
    /\ ghost.cont /\ ~crashed

\* the consumer answered an envelope of the stream by Stop, and has called
\* Continue and Stop only to answer an envelope
Stopped == ghost.stopAt > 0 /\ ~ghost.stray
\* the channel of the stream (the last one made) is closed, unless the
\* consumer left its discipline
ClosedOrStray == ghost.stray \/ (chs # <<>> /\ chs[Len(chs)].closed)

\* C6: in sequential mode, once the consumer has answered envelope i by
\* Stop, no further envelope is delivered, none of the requests i+1..N is
\* executed, and the stream's channel is eventually closed.
C6_StopEndsStream ==
    /\ [](Stopped =>
            /\ Len(recv) = ghost.stopAt
            /\ NoneExecutedAfter(ghost.stopAt))
    /\ Stopped ~> ClosedOrStray

\* no channel made so far has been closed: no stream has finished
NoStreamFinished == \A k \in 1..Len(chs) : ~chs[k].closed

\* C8: calls of Sync on one Group, also from two goroutines at once, made
\* before the first stream has finished all return the same channel, and
\* only one producer is started.
C8_OneStreamPerMode ==
    /\ Cardinality(Live("producer")) <= 1
    /\ NoStreamFinished =>
          /\ Len(chs) <= 1
          /\ \A i, j \in 1..Len(ghost.rets) : ghost.rets[i] = ghost.rets[j]

\* the consumer has neither stopped the stream nor called Continue or Stop
\* with no envelope to answer
NotStopped == ~ghost.stray /\ ghost.stopAt = 0
\* the stream runs: its producer is inside the loop over the requests
Running == Live("producer") # {} /\ \A p \in Live("producer") : gor[p].pc \in InLoop

\* C11: a failed request does not abort a Group: in sequential mode no
\* execution ends the process, and while the consumer has not called Stop and
\* envelopes remain to be delivered the producer stays in its loop, whatever
\* the envelopes delivered so far carry: only Stop ends the sequence early.
C11_FailureDoesNotAbort ==
    /\ ~crashed
    /\ (NotStopped /\ chs # <<>> /\ Len(recv) < Len(group.requests)) => Running

\* C16: when a sequential stream ends its channel is closed and the
\* Group's reference cleared; a channel is made only once the one before is
\* closed, a later call that makes a channel returns that new channel, the
\* new run delivers from the first request on, and Continue and Stop
\* release no producer that has not published its own tokens.
C16_RestartsCleanly ==
    /\ \A k \in 1..Len(chs) : k < Len(chs) => chs[k].closed
    /\ group.sync \in {0, Len(chs)}
    /\ (chs # <<>> /\ Live("producer") = {}) =>
          chs[Len(chs)].closed /\ group.sync = 0
    /\ \A c \in {1} : (Idle(c) /\ ghost.made >= 2) => callers[c].ch = ghost.made
    /\ recv # <<>> => recv[1].req = 1 /\ recv[1].ch = Len(chs)
    /\ \A p \in Looping :
          /\ group.next # p => ~gor[p].next
          /\ group.stop # p => ~gor[p].stop

\* every request of the Group is attached to a Service: its execution
\* returns
AllReturn == \A i \in 1..Len(group.requests) : group.requests[i].service
\* the stream has ended: every envelope was received, the channel is closed
\* and the producer has returned
Ended ==
    /\ chs # <<>> /\ chs[Len(chs)].closed
    /\ Live("producer") = {}
    /\ Len(recv) = Len(group.requests)

\* C17: sequential mode terminates: on a Group of N requests whose
\* executions return, with a consumer that receives every envelope and
\* answers each by Continue, never more than N envelopes are delivered and
\* the stream eventually has delivered N envelopes, closed its channel and
\* ended its producer.
C17_SyncTerminates ==
    /\ [](Len(recv) <= Len(group.requests))
    /\ (chs # <<>> /\ AllReturn) ~> (Ended \/ ~NotStopped)

\* both requests delivered and answered by Continue, the stream ended
C17_Witness ==
    /\ Ended /\ NotStopped /\ AllReturn
    /\ Len(group.requests) = 2 /\ ghost.cont

(***************************************************************************)
(* Properties of a Group consumed through Async (SpecAsync).               *)
(***************************************************************************)
\* the envelopes of the stream held by the consumer c: those it received
\* and those waiting in the channel's buffer
Delivered(c) == recv \o chs[callers[c].ch].buf
\* how many of the envelopes es are of the request i
EnvelopesOf(es, i) == Cardinality({j \in 1..Len(es) : es[j].req = i})

\* C7: in parallel mode no worker ends the process, no request is executed
\* twice, and when the channel the consumer holds is closed every request
\* has been executed exactly once and has exactly one envelope delivered on
\* the channel.
C7_ExactlyOneEnvelopeEach ==
    /\ ~crashed
    /\ \A i \in 1..Len(group.requests) : execd[i] <= 1
    /\ \A c \in Callers :
          (Idle(c) /\ callers[c].ch # 0 /\ chs[callers[c].ch].closed) =>
              \A i \in 1..Len(group.requests) :
                  /\ execd[i] = 1
                  /\ EnvelopesOf(Delivered(c), i) = 1

\* C18: every call of Async (and of Sync) returns a non-nil channel, under
\* every interleaving of the caller with the goroutine that closes the
\* channel and clears the Group's reference.
C18_ReturnsChannel ==
    \A i \in 1..Len(ghost.rets) : ghost.rets[i] # 0

\* the worker w has an envelope: its execution returned
HasEnvelope(w) == gor[w].env.rsp \/ gor[w].env.err
\* the worker w is held in its send: waiting for room, blocked for ever on
\* a nil channel, or panicked on a closed one
HeldInSend(w) ==
    \/ gor[w].pc \in {"sending", "blocked"}
    \/ gor[w].pc \in {"unwind", "dying", "panic"} /\ HasEnvelope(w)

\* the channel made last is closed
LastClosed == chs # <<>> /\ chs[Len(chs)].closed

\* C19: in parallel mode the channel has room for one envelope per request,
\* no worker blocks on or panics in its send, and every channel made is
\* eventually closed, whether the consumer receives or not.
C19_SendsNeverBlock ==
    /\ [](\A k \in 1..Len(chs) : chs[k].cap = Len(group.requests))
    /\ [](\A w \in Live("worker") : ~HeldInSend(w))
    /\ (chs # <<>> /\ ~LastClosed) ~> LastClosed

vars == <<service, request, result, response, stream, returns,
          group, chs, callers, gor, recv, execd, crashed, build, ghost>>

Init == ExecInit /\ BytesIdle /\ GroupIdle
Next == ExecNext
Spec == Init /\ [][Next]_vars

SpecBytes == BytesInit /\ [][BytesNext]_vars

SpecSync == GroupInit /\ [][SyncNext]_vars
SpecSyncFair == FairInit /\ [][SyncNext]_vars /\ WF_vars(ProducerSteps)
SpecSyncDriven ==
    FairInit /\ [][SyncNext]_vars /\ WF_vars(ProducerSteps) /\ WF_vars(ConsumerSteps)
SpecSyncRace == RaceInit /\ [][SyncRaceNext]_vars
SpecAsync == AsyncInit /\ [][AsyncNext]_vars
SpecAsyncFair == AsyncInit /\ [][AsyncNext]_vars /\ WF_vars(WorkerSteps)
SpecAsyncRace == AsyncRaceInit /\ [][AsyncRaceNext]_vars
====
